---- MODULE Spec2Model ----
(***************************************************************************)
(* A model of lavapy.websocket.Websocket: the connection to a Lavalink     *)
(* node, its connect() and disconnect() coroutines, the listener() task    *)
(* and the processing of the frames it receives.  Every action is one      *)
(* run of a coroutine between two suspension points of the asyncio event   *)
(* loop, so the actions interleave exactly where the tasks can.            *)
(***************************************************************************)
EXTENDS Integers, Sequences, FiniteSets, TLC

\* Bounds of the model.
MaxConnects == 2        \* connect() calls returned or in flight
MaxFrames == 2          \* frames delivered to the listeners, in total
BackoffBase == 1        \* base delay of the backoff
BackoffMax == 4         \* largest delay bound of the backoff

\* The guilds a message can name, and those of node.players.
GuildIds == {1, 2, 3}
Players == {1, 2}

VARIABLES
    open,           \* Websocket.open
    connected,      \* Websocket.connected
    connection,     \* Websocket.connection: 0 is None, else a socket
    _listener,      \* Websocket._listener: 0 is None, else a listener task
    socks,          \* the sockets ws_connect has opened: "open" or "closed"
    pending,        \* the connect() calls awaiting ws_connect, in call order
    closing,        \* the disconnect() calls awaiting connection.close()
    disconnectError, \* the exception of the last disconnect(), or "none"
    listeners,      \* the listener() tasks, in the order of their creation
    frames          \* the number of frames delivered so far

vars == <<open, connected, connection, _listener, socks, pending, closing,
          disconnectError, listeners, frames>>

Min(a, b) == IF a <= b THEN a ELSE b

-----------------------------------------------------------------------------
\* The messages of the node: a TEXT frame's body.  wf is FALSE for text that
\* msg.json() cannot parse; op is data.get("op"), with "none" for an absent or
\* unknown operation code.
TrackEvents == {"TrackStartEvent", "TrackEndEvent", "TrackExceptionEvent",
                "TrackStuckEvent"}
EventTypes == TrackEvents \cup {"WebSocketClosedEvent", "UnknownEvent"}

Msg(wf, op, type, guild) == [wf |-> wf, op |-> op, type |-> type, guild |-> guild]

Msgs ==
    {Msg(FALSE, "none", "none", 0), Msg(TRUE, "stats", "none", 0),
     Msg(TRUE, "none", "none", 0)}
    \cup {Msg(TRUE, "playerUpdate", "none", g) : g \in GuildIds}
    \cup {Msg(TRUE, "event", t, g) : t \in EventTypes, g \in GuildIds}

NoMsg == Msg(FALSE, "none", "none", 0)

\* LavapyEvent.event of the event built for an event type.
EventName(type) ==
    CASE type = "WebSocketClosedEvent" -> "websocketclosed"
      [] type = "TrackStartEvent" -> "trackstart"
      [] type = "TrackEndEvent" -> "trackend"
      [] type = "TrackExceptionEvent" -> "trackexception"
      [] type = "TrackStuckEvent" -> "trackstuck"
      [] OTHER -> "none"

\* A call of a collaborator made while a message is processed.
Act(call, guild, name) == [call |-> call, guild |-> guild, name |-> name]

-----------------------------------------------------------------------------
\* ExponentialBackoff: the state of a backoff is the number of delays it has
\* handed out; delay() yields the bound of the next one, before jitter.
NewBackoff == 0

BackoffDelay(uses) == Min(BackoffBase * (2 ^ uses), BackoffMax)

-----------------------------------------------------------------------------
\* A listener task as listener() leaves it when the task is created.
\*   pc       "ready" (created, not run yet), "receiving", "processing",
\*            "sleeping", "dead" (ended by an exception)
\*   sock     the socket its pending receive() was issued on
\*   backoff  the state of its current ExponentialBackoff
\*   bound    the delay bound of the sleep it is in, 0 otherwise
\*   msg      the message being processed
\*   task     the processListener task: "none", "created", "building"
\*            (awaiting node.buildTrack), "ok", "failed"
\*   err      the exception that ended the task or the listener
\*   acts     the collaborator calls made for the current message, in order
\*   closures the CLOSED frames it has handled, one after the other, since
\*            the last successful connect() of the instance
NewListener ==
    [pc |-> "ready", sock |-> 0, backoff |-> NewBackoff, bound |-> 0,
     msg |-> NoMsg, task |-> "none", err |-> "none",
     acts |-> <<>>, closures |-> 0]

Alive(l) == listeners[l].pc # "dead"

isConnected == connected /\ open

Disconnected == ~connected /\ ~open

\* A connect() call that awaits ws_connect remembers how many sockets the
\* instance had opened when the call began.
Call(n) == [base |-> n]

Remove(seq, i) == [j \in 1..(Len(seq) - 1) |-> IF j < i THEN seq[j] ELSE seq[j + 1]]

\* __init__: the fields, and the connect() task it creates, which has
\* ws_connect to await.
Init ==
    /\ open = FALSE
    /\ connected = FALSE
    /\ connection = 0
    /\ _listener = 0
    /\ socks = <<>>
    /\ pending = <<Call(0)>>
    /\ closing = {}
    /\ disconnectError = "none"
    /\ listeners = <<>>
    /\ frames = 0

\* A caller invokes connect(): the headers are built and ws_connect is
\* awaited.  Nothing in connect() looks at the state of the instance first.
ConnectCall ==
    /\ Len(socks) + Len(pending) < MaxConnects
    /\ pending' = Append(pending, Call(Len(socks)))
    /\ UNCHANGED <<open, connected, connection, _listener, socks, closing,
                   disconnectError, listeners, frames>>

\* ConnectSucceed as it would be without line 106: open is left as it was.
ConnectSucceed_NotOpen(i) ==
    /\ i \in DOMAIN pending
    /\ pending' = Remove(pending, i)
    /\ socks' = Append(socks, "open")
    /\ connection' = Len(socks) + 1
    /\ listeners' = Append([k \in DOMAIN listeners |->
                               [listeners[k] EXCEPT !.closures = 0]],
                           NewListener)
    /\ _listener' = Len(listeners) + 1
    /\ connected' = TRUE
    /\ UNCHANGED <<open, closing, disconnectError, frames>>

\* ws_connect returns a socket and connect() runs to its end: the socket is
\* stored, the listener task is created and both flags are set.  Nothing
\* suspends between these statements.
ConnectSucceed(i) ==
    /\ i \in DOMAIN pending
    /\ pending' = Remove(pending, i)
    /\ socks' = Append(socks, "open")
    /\ connection' = Len(socks) + 1
    /\ listeners' = Append([k \in DOMAIN listeners |->
                               [listeners[k] EXCEPT !.closures = 0]],
                           NewListener)
    /\ _listener' = Len(listeners) + 1
    /\ connected' = TRUE
    /\ open' = TRUE
    /\ UNCHANGED <<closing, disconnectError, frames>>

\* ConnectFail as it would be with line 105 moved above the handshake:
\* connected is set although ws_connect raises.
ConnectFail_Connected(i) ==
    /\ i \in DOMAIN pending
    /\ pending' = Remove(pending, i)
    /\ connected' = TRUE
    /\ UNCHANGED <<open, connection, _listener, socks, closing,
                   disconnectError, listeners, frames>>

\* ws_connect raises: the exception leaves connect() before any assignment.
ConnectFail(i) ==
    /\ i \in DOMAIN pending
    /\ pending' = Remove(pending, i)
    /\ UNCHANGED <<open, connected, connection, _listener, socks, closing,
                   disconnectError, listeners, frames>>

\* A caller invokes disconnect().  With connection None, connection.close
\* raises AttributeError.  close() of a closed socket returns without
\* suspending, and disconnect() runs to its end; close() of an open socket
\* closes it and suspends until the closing handshake is over.
DisconnectCall ==
    /\ IF connection = 0
       THEN /\ disconnectError' = "AttributeError"
            /\ UNCHANGED <<socks, connected, open, closing>>
       ELSE IF socks[connection] = "closed"
       THEN /\ disconnectError' = "none"
            /\ connected' = FALSE
            /\ open' = FALSE
            /\ UNCHANGED <<socks, closing>>
       ELSE /\ closing' = closing \cup {connection}
            /\ socks' = [socks EXCEPT ![connection] = "closed"]
            /\ UNCHANGED <<connected, open, disconnectError>>
    /\ UNCHANGED <<connection, _listener, pending, listeners, frames>>

\* DisconnectReturn with open left as it is: only connected is cleared.
DisconnectReturn_KeepOpen(s) ==
    /\ s \in closing
    /\ closing' = closing \ {s}
    /\ disconnectError' = "none"
    /\ connected' = FALSE
    /\ UNCHANGED <<open, connection, _listener, socks, pending, listeners,
                   frames>>

\* connection.close() of socket s returns and disconnect() runs to its end.
DisconnectReturn(s) ==
    /\ s \in closing
    /\ closing' = closing \ {s}
    /\ disconnectError' = "none"
    /\ connected' = FALSE
    /\ open' = FALSE
    /\ UNCHANGED <<connection, _listener, socks, pending, listeners, frames>>

-----------------------------------------------------------------------------
\* The listener task runs for the first time: the top of the loop, where a
\* new ExponentialBackoff is made and receive() is issued on the socket that
\* connection holds now.
ListenerStart(l) ==
    /\ listeners[l].pc = "ready"
    /\ listeners' = [listeners EXCEPT ![l].pc = "receiving",
                                      ![l].backoff = NewBackoff,
                                      ![l].sock = connection]
    /\ UNCHANGED <<open, connected, connection, _listener, socks, pending,
                   closing, disconnectError, frames>>

\* What the pending receive() of listener l can yield: a TEXT frame, a CLOSED
\* frame, a frame of another type (ERROR, BINARY, ...) or an exception, as
\* long as the frame budget lasts.  A closed socket yields CLOSED only.
CanReceive(l, kind) ==
    /\ listeners[l].pc = "receiving"
    /\ frames < MaxFrames
    /\ socks[listeners[l].sock] = "closed" => kind = "CLOSED"

\* ListenerText with the processListener task created and not awaited: the
\* loop goes on to the next receive().
ListenerText_NotAwaited(l, m) ==
    /\ CanReceive(l, "TEXT")
    /\ frames' = frames + 1
    /\ listeners' = [listeners EXCEPT ![l] =
         IF m.wf
         THEN [@ EXCEPT !.pc = "receiving", !.sock = connection, !.msg = m,
                        !.task = "created"]
         ELSE [@ EXCEPT !.pc = "dead", !.sock = 0, !.err = "JSONDecodeError"]]
    /\ UNCHANGED <<open, connected, connection, _listener, socks, pending,
                   closing, disconnectError>>

\* receive() yields a TEXT frame.  msg.json() raises on text that is not JSON,
\* which ends the listener; otherwise the processListener task is created and
\* awaited.
ListenerText(l, m) ==
    /\ CanReceive(l, "TEXT")
    /\ frames' = frames + 1
    /\ listeners' = [listeners EXCEPT ![l] =
         IF m.wf
         THEN [@ EXCEPT !.pc = "processing", !.sock = 0, !.msg = m,
                        !.task = "created"]
         ELSE [@ EXCEPT !.pc = "dead", !.sock = 0, !.err = "JSONDecodeError"]]
    /\ UNCHANGED <<open, connected, connection, _listener, socks, pending,
                   closing, disconnectError>>

\* receive() yields a CLOSED frame: the socket is closed (by the node, or
\* already), and the listener sleeps for backoff.delay().
ListenerClosed(l) ==
    /\ CanReceive(l, "CLOSED")
    /\ frames' = frames + 1
    /\ socks' = [socks EXCEPT ![listeners[l].sock] = "closed"]
    /\ listeners' = [listeners EXCEPT ![l] =
         [@ EXCEPT !.pc = "sleeping", !.sock = 0,
                   !.bound = BackoffDelay(listeners[l].backoff),
                   !.backoff = @ + 1,
                   !.closures = @ + 1]]
    /\ UNCHANGED <<open, connected, connection, _listener, pending, closing,
                   disconnectError>>

\* receive() yields a frame that is neither TEXT nor CLOSED: neither branch
\* is taken, and the loop issues the next receive() without suspending.
ListenerOther(l) ==
    /\ CanReceive(l, "ERROR")
    /\ frames' = frames + 1
    /\ listeners' = [listeners EXCEPT ![l].pc = "receiving",
                                      ![l].backoff = NewBackoff,
                                      ![l].sock = connection]
    /\ UNCHANGED <<open, connected, connection, _listener, socks, pending,
                   closing, disconnectError>>

\* receive() raises: the exception leaves listener() and ends the task.
ListenerRaise(l) ==
    /\ CanReceive(l, "RAISE")
    /\ frames' = frames + 1
    /\ listeners' = [listeners EXCEPT ![l].pc = "dead", ![l].sock = 0,
                                      ![l].err = "ReceiveError"]
    /\ UNCHANGED <<open, connected, connection, _listener, socks, pending,
                   closing, disconnectError>>

\* asyncio.sleep returns: back to the top of the loop, a new backoff and the
\* next receive().
ListenerWake(l) ==
    /\ listeners[l].pc = "sleeping"
    /\ listeners' = [listeners EXCEPT ![l].pc = "receiving",
                                      ![l].backoff = NewBackoff,
                                      ![l].bound = 0,
                                      ![l].sock = connection]
    /\ UNCHANGED <<open, connected, connection, _listener, socks, pending,
                   closing, disconnectError, frames>>

-----------------------------------------------------------------------------
DispatchName(type) == "lavapy_" \o EventName(type)

\* getPlayer without the filter on the guild: the first of all the players.
getPlayer_First(guildID) ==
    IF Players = {}
    THEN 0
    ELSE CHOOSE p \in Players : \A q \in Players : p <= q

\* getPlayer: the first of the players whose guild is guildID; 0 stands for
\* the IndexError of indexing the empty list.
getPlayer(guildID) ==
    IF {p \in Players : p = guildID} = {}
    THEN 0
    ELSE CHOOSE p \in Players : p = guildID

\* The playerUpdate branch of processListener, on the record r of the
\* listener: the player is looked up and its state updated.
playerUpdate(r) ==
    LET player == getPlayer(r.msg.guild)
        lookup == <<Act("getPlayer", r.msg.guild, "")>>
    IN IF player = 0
       THEN [r EXCEPT !.task = "failed", !.err = "IndexError", !.acts = lookup]
       ELSE [r EXCEPT !.task = "ok",
                      !.acts = lookup \o <<Act("updateState", player, "")>>]

\* The event branch of processListener up to its first suspension:
\* getEventPayload looks the player up; a WebSocketClosedEvent is built and
\* dispatched at once, any other type awaits node.buildTrack.
eventStart(r) ==
    LET player == getPlayer(r.msg.guild)
        lookup == <<Act("getPlayer", r.msg.guild, "")>>
    IN IF player = 0
       THEN [r EXCEPT !.task = "failed", !.err = "IndexError", !.acts = lookup]
       ELSE IF r.msg.type = "WebSocketClosedEvent"
       THEN [r EXCEPT !.task = "ok",
                      !.acts = lookup \o
                          <<Act("dispatch", player, DispatchName(r.msg.type))>>]
       ELSE [r EXCEPT !.task = "building",
                      !.acts = lookup \o <<Act("buildTrack", player, "")>>]

\* The calls made so far, with the outcome of the last one, the awaited
\* node.buildTrack, recorded on it: it returned a track or it raised.
Built(acts, ok) ==
    [acts EXCEPT ![Len(acts)].name = IF ok THEN "track" ELSE "raised"]

\* eventFinish with the exception of node.buildTrack swallowed: the event is
\* dispatched whether or not the track was built.
eventFinish_DispatchOnFailure(r, ok) ==
    IF r.msg.type \in TrackEvents
    THEN [r EXCEPT !.task = "ok",
                   !.acts = Built(@, ok) \o
                       <<Act("dispatch", getPlayer(r.msg.guild),
                             DispatchName(r.msg.type))>>]
    ELSE [r EXCEPT !.task = "failed", !.err = "AttributeError",
                   !.acts = Built(@, ok)]

\* eventFinish with the built event dispatched twice.
eventFinish_DispatchTwice(r, ok) ==
    IF ~ok
    THEN [r EXCEPT !.task = "failed", !.err = "TrackBuildError",
                   !.acts = Built(@, ok)]
    ELSE IF r.msg.type \in TrackEvents
    THEN [r EXCEPT !.task = "ok",
                   !.acts = Built(@, ok) \o
                       <<Act("dispatch", getPlayer(r.msg.guild),
                             DispatchName(r.msg.type)),
                         Act("dispatch", getPlayer(r.msg.guild),
                             DispatchName(r.msg.type))>>]
    ELSE [r EXCEPT !.task = "failed", !.err = "AttributeError",
                   !.acts = Built(@, ok)]

\* The event branch once node.buildTrack has returned (ok) or raised.  With
\* a track, the event of a track type is built and dispatched; for any other
\* type getEventPayload returns None and event.event raises AttributeError.
eventFinish(r, ok) ==
    IF ~ok
    THEN [r EXCEPT !.task = "failed", !.err = "TrackBuildError",
                   !.acts = Built(@, ok)]
    ELSE IF r.msg.type \in TrackEvents
    THEN [r EXCEPT !.task = "ok",
                   !.acts = Built(@, ok) \o
                       <<Act("dispatch", getPlayer(r.msg.guild),
                             DispatchName(r.msg.type))>>]
    ELSE [r EXCEPT !.task = "failed", !.err = "AttributeError",
                   !.acts = Built(@, ok)]

\* processListener with the stats branch missing: every operation code
\* other than event is handled as a playerUpdate.
processListener_NoStatsBranch(r) ==
    IF r.msg.op = "event" THEN eventStart(r)
    ELSE playerUpdate(r)

\* processListener up to its first suspension or its end: the branch of the
\* operation code; stats and any other code do nothing.
processListener(r) ==
    IF r.msg.op = "playerUpdate" THEN playerUpdate(r)
    ELSE IF r.msg.op = "event" THEN eventStart(r)
    ELSE [r EXCEPT !.task = "ok"]

\* The processListener task runs, up to its first suspension or its end.
ProcessStart(l) ==
    /\ listeners[l].pc = "processing"
    /\ listeners[l].task = "created"
    /\ listeners' = [listeners EXCEPT ![l] = processListener(@)]
    /\ UNCHANGED <<open, connected, connection, _listener, socks, pending,
                   closing, disconnectError, frames>>

\* node.buildTrack returns (ok) or raises, and the task runs to its end.
TrackBuilt(l, ok) ==
    /\ listeners[l].pc = "processing"
    /\ listeners[l].task = "building"
    /\ listeners' = [listeners EXCEPT ![l] = eventFinish(@, ok)]
    /\ UNCHANGED <<open, connected, connection, _listener, socks, pending,
                   closing, disconnectError, frames>>

\* ListenerResume with the task not waited for: the loop goes on while the
\* track build of the message is still pending.
ListenerResume_Early(l) ==
    /\ listeners[l].pc = "processing"
    /\ listeners[l].task \in {"building", "ok", "failed"}
    /\ listeners' = [listeners EXCEPT ![l].pc =
                        IF listeners[l].task # "failed" THEN "receiving" ELSE "dead",
                                      ![l].sock =
                        IF listeners[l].task # "failed" THEN connection ELSE 0,
                                      ![l].backoff = NewBackoff,
                                      ![l].task = "none",
                                      ![l].msg = NoMsg,
                                      ![l].acts = <<>>]
    /\ UNCHANGED <<open, connected, connection, _listener, socks, pending,
                   closing, disconnectError, frames>>

\* The awaited task is done and the listener resumes: the task's exception,
\* if any, is raised in listener() and ends it; otherwise the loop goes on to
\* the next receive().  The message and the task are released.
ListenerResume(l) ==
    /\ listeners[l].pc = "processing"
    /\ listeners[l].task \in {"ok", "failed"}
    /\ listeners' = [listeners EXCEPT ![l].pc =
                        IF listeners[l].task = "ok" THEN "receiving" ELSE "dead",
                                      ![l].sock =
                        IF listeners[l].task = "ok" THEN connection ELSE 0,
                                      ![l].backoff = NewBackoff,
                                      ![l].task = "none",
                                      ![l].msg = NoMsg,
                                      ![l].acts = <<>>]
    /\ UNCHANGED <<open, connected, connection, _listener, socks, pending,
                   closing, disconnectError, frames>>

-----------------------------------------------------------------------------
Next ==
    \/ ConnectCall
    \/ \E i \in DOMAIN pending : ConnectSucceed(i)
    \/ \E i \in DOMAIN pending : ConnectFail(i)
    \/ DisconnectCall
    \/ \E s \in closing : DisconnectReturn(s)
    \/ \E l \in DOMAIN listeners : ListenerStart(l)
    \/ \E l \in DOMAIN listeners : \E m \in Msgs : ListenerText(l, m)
    \/ \E l \in DOMAIN listeners : ListenerClosed(l)
    \/ \E l \in DOMAIN listeners : ListenerOther(l)
    \/ \E l \in DOMAIN listeners : ListenerRaise(l)
    \/ \E l \in DOMAIN listeners : ListenerWake(l)
    \/ \E l \in DOMAIN listeners : ProcessStart(l)
    \/ \E l \in DOMAIN listeners : \E ok \in BOOLEAN : TrackBuilt(l, ok)
    \/ \E l \in DOMAIN listeners : ListenerResume(l)

Spec == Init /\ [][Next]_vars

\* The same program with a node that sends two kinds of message only: text
\* that is not JSON, and a TrackStartEvent of a guild that has a player (which
\* goes through the player lookup, the track build and the dispatch).  The
\* connection and the listener tasks behave as under Spec; the state space is
\* small enough to follow three connect() calls in full.
LifecycleMsgs ==
    {Msg(FALSE, "none", "none", 0), Msg(TRUE, "event", "TrackStartEvent", 1)}

NextLifecycle ==
    \/ ConnectCall
    \/ \E i \in DOMAIN pending : ConnectSucceed(i)
    \/ \E i \in DOMAIN pending : ConnectFail(i)
    \/ DisconnectCall
    \/ \E s \in closing : DisconnectReturn(s)
    \/ \E l \in DOMAIN listeners : ListenerStart(l)
    \/ \E l \in DOMAIN listeners : \E m \in LifecycleMsgs : ListenerText(l, m)
    \/ \E l \in DOMAIN listeners : ListenerClosed(l)
    \/ \E l \in DOMAIN listeners : ListenerOther(l)
    \/ \E l \in DOMAIN listeners : ListenerRaise(l)
    \/ \E l \in DOMAIN listeners : ListenerWake(l)
    \/ \E l \in DOMAIN listeners : ProcessStart(l)
    \/ \E l \in DOMAIN listeners : \E ok \in BOOLEAN : TrackBuilt(l, ok)
    \/ \E l \in DOMAIN listeners : ListenerResume(l)

SpecLifecycle == Init /\ [][NextLifecycle]_vars

\* The processing of the messages, for the claims about one message: the
\* instance keeps the connection of its constructor (connect() is not called
\* again), the node sends every message of Msgs.
NextProcessing ==
    \/ \E i \in 1..Len(pending) : ConnectSucceed(i)
    \/ \E i \in 1..Len(pending) : ConnectFail(i)
    \/ DisconnectCall
    \/ \E s \in closing : DisconnectReturn(s)
    \/ \E l \in DOMAIN listeners :
           \/ ListenerStart(l)
           \/ \E m \in Msgs : ListenerText(l, m)
           \/ ListenerClosed(l)
           \/ ListenerOther(l)
           \/ ListenerRaise(l)
           \/ ListenerWake(l)
           \/ ProcessStart(l)
           \/ \E ok \in BOOLEAN : TrackBuilt(l, ok)
           \/ ListenerResume(l)

SpecProcessing == Init /\ [][NextProcessing]_vars

-----------------------------------------------------------------------------
\* C1: a message that cannot be parsed or processed never ends the listener:
\* whenever a listener task ends, it ends on an error of receive() itself.
PerMessageFailureKeepsListener ==
    [][\A l \in DOMAIN listeners :
          (Alive(l) /\ listeners'[l].pc = "dead")
              => listeners'[l].err = "ReceiveError"]_vars

\* C2: a live listener task exists only while the instance is connected or a
\* connect() is in flight, and none is left once a disconnect() has returned
\* (a connection was made, and connected and open are False again).
ListenerOnlyWhileConnected ==
    \A l \in DOMAIN listeners :
        Alive(l) => /\ isConnected \/ pending # <<>>
                    /\ ~(Disconnected /\ connection # 0)

\* C3: at most one listener task of the instance is alive at any time.
AtMostOneListener ==
    Cardinality({l \in DOMAIN listeners : Alive(l)}) <= 1

\* C4: two connect() calls that await their handshakes at the same time never
\* both end with a live socket: when a call's handshake succeeds, no socket
\* opened since that call began is still open.
ConcurrentConnectOneSocket ==
    [][Len(socks') > Len(socks) =>
          \E i \in DOMAIN pending :
              /\ pending' = Remove(pending, i)
              /\ \A s \in (pending[i].base + 1)..Len(socks) :
                     socks[s] # "open"]_vars

\* C5: the delay bound of a listener's nth closure in a row since the last
\* successful connection is min(b * 2^(n-1), m).
BackoffFollowsSchedule ==
    \A l \in DOMAIN listeners :
        (listeners[l].pc = "sleeping" /\ listeners[l].closures >= 1)
            => listeners[l].bound =
                   Min(BackoffBase * (2 ^ (listeners[l].closures - 1)),
                       BackoffMax)

\* C6: after the backoff delay of a closure the listener receives again only
\* from a socket that is open (it has reconnected) or it has ended; it does not
\* go back to the closed socket, which would yield a second closure and a
\* second delay.
ClosureIsHandledOnce ==
    [][\A l \in DOMAIN listeners :
          (listeners[l].pc = "sleeping" /\ listeners'[l].pc = "receiving")
              => socks'[listeners'[l].sock] = "open"]_vars

\* C7: a receive() that raises ends the listener with the instance
\* disconnected, and no frame is delivered that leaves every listener where it
\* was (a frame that is neither TEXT nor CLOSED ends its listener too).
FatalReceiveDisconnects ==
    [][/\ \A l \in DOMAIN listeners :
             (/\ listeners[l].pc = "receiving"
              /\ listeners'[l].pc = "dead"
              /\ listeners'[l].err = "ReceiveError")
                 => (~connected' /\ ~open')
       /\ ~(/\ frames' = frames + 1
            /\ \A l \in DOMAIN listeners :
                   listeners'[l].pc = listeners[l].pc)]_vars

\* C8: a step of disconnect() taken while the instance is disconnected raises
\* nothing and leaves connected, open, connection and _listener as they were.
DisconnectIdempotent ==
    [][(Disconnected /\ (disconnectError' # disconnectError \/ closing' # closing))
          => /\ disconnectError' = "none"
             /\ UNCHANGED <<connected, open, connection, _listener>>]_vars

\* C9: when connect() returns, connected and open are True, connection is the
\* socket just opened, which is open, and a new listener task has been created
\* and is the one _listener holds.
ConnectOpensAndListens ==
    [][Len(socks') > Len(socks) =>
          /\ connected' /\ open'
          /\ connection' = Len(socks')
          /\ socks'[connection'] = "open"
          /\ Len(listeners') = Len(listeners) + 1
          /\ listeners'[Len(listeners')].pc = "ready"
          /\ _listener' = Len(listeners')]_vars

\* A connect() has just returned: the newest socket is the connection and its
\* listener has not run yet.
ConnectJustReturned ==
    /\ isConnected
    /\ Len(socks) = 2
    /\ connection = Len(socks)
    /\ _listener = Len(listeners)
    /\ listeners[_listener].pc = "ready"

\* C10: a connect() call that ends without a socket (its handshake failed)
\* leaves connected, open, connection, the sockets and the listener tasks as
\* they were.
ConnectFailureChangesNothing ==
    [][(Len(pending') < Len(pending) /\ Len(socks') = Len(socks))
          => UNCHANGED <<connected, open, connection, _listener, listeners,
                         socks>>]_vars

\* The handshake of the constructor's connect() has failed: no call is in
\* flight and no socket was ever opened.
HandshakeFailed ==
    /\ pending = <<>>
    /\ socks = <<>>
    /\ connection = 0
    /\ Disconnected
    /\ listeners = <<>>


-----------------------------------------------------------------------------
\* The processListener task awaited by listener l has ended.
Done(l) ==
    /\ listeners[l].pc = "processing"
    /\ listeners[l].task \in {"ok", "failed"}

\* The calls of one collaborator made while listener l processed its message.
Calls(l, call) == SelectSeq(listeners[l].acts, LAMBDA a : a.call = call)

\* C11: a playerUpdate or event message whose guild has no player ends its
\* processing with the error PlayerNotFound, and neither updateState nor
\* buildTrack nor dispatch has been called.
NoPlayerIsPlayerNotFound ==
    \A l \in DOMAIN listeners :
        (/\ Done(l)
         /\ listeners[l].msg.op \in {"playerUpdate", "event"}
         /\ listeners[l].msg.guild \notin Players)
        => /\ listeners[l].task = "failed"
           /\ listeners[l].err = "PlayerNotFound"
           /\ Calls(l, "updateState") = <<>>
           /\ Calls(l, "buildTrack") = <<>>
           /\ Calls(l, "dispatch") = <<>>

\* The event name the bus is to be given for a message: the prefix and the
\* lowercase tag of the event of the message.
ExpectedName(m) ==
    CASE m.op = "playerUpdate" -> "lavapy_playerupdate"
      [] m.op = "event" /\ m.type = "TrackStartEvent" -> "lavapy_trackstart"
      [] m.op = "event" /\ m.type = "TrackEndEvent" -> "lavapy_trackend"
      [] m.op = "event" /\ m.type = "TrackExceptionEvent" -> "lavapy_trackexception"
      [] m.op = "event" /\ m.type = "TrackStuckEvent" -> "lavapy_trackstuck"
      [] m.op = "event" /\ m.type = "WebSocketClosedEvent" -> "lavapy_websocketclosed"
      [] OTHER -> "lavapy_"

UnknownTypeIsUnknownEventType ==
    \A l \in DOMAIN listeners :
        (/\ Done(l)
         /\ listeners[l].msg.op = "event"
         /\ listeners[l].msg.type
                \notin TrackEvents \cup {"WebSocketClosedEvent"}
         /\ listeners[l].msg.guild \in Players)
        => /\ listeners[l].task = "failed"
           /\ listeners[l].err = "UnknownEventType"
           /\ Calls(l, "dispatch") = <<>>

\* C14: a message whose operation code is none of playerUpdate, event and
\* stats ends its processing with the error UnknownOperationCode; it is not
\* a silent return.
UnknownOpIsUnknownOperationCode ==
    \A l \in DOMAIN listeners :
        (/\ Done(l)
         /\ listeners[l].msg.op \notin {"playerUpdate", "event", "stats"})
        => /\ listeners[l].task = "failed"
           /\ listeners[l].err = "UnknownOperationCode"

UpdateStateOnceOnThePlayer ==
    \A l \in DOMAIN listeners :
        (/\ listeners[l].pc = "processing"
         /\ listeners[l].msg.op = "playerUpdate"
         /\ listeners[l].msg.guild \in Players)
        => /\ listeners[l].task \in {"created", "ok"}
           /\ listeners[l].task = "created" => listeners[l].acts = <<>>
           /\ listeners[l].task = "ok" =>
                  Calls(l, "updateState") =
                      <<Act("updateState", listeners[l].msg.guild, "")>>

\* The playerUpdate of guild 2 is processed: the player of guild 2 is updated.
PlayerTwoUpdated ==
    \E l \in DOMAIN listeners :
        /\ Done(l)
        /\ listeners[l].msg = Msg(TRUE, "playerUpdate", "none", 2)
        /\ listeners[l].acts =
               <<Act("getPlayer", 2, ""), Act("updateState", 2, "")>>

\* C17: the step that processes a stats message ends the processing with
\* no collaborator call made (no getPlayer, updateState, buildTrack or
\* dispatch) and leaves connected, open and connection unchanged.
StatsDoesNothing ==
    [][\A l \in DOMAIN listeners :
           (/\ listeners[l].msg.op = "stats"
            /\ listeners[l].task = "created"
            /\ listeners'[l] # listeners[l])
           => /\ listeners'[l].task = "ok"
              /\ listeners'[l].acts = <<>>
              /\ listeners'[l].err = "none"
              /\ UNCHANGED <<connected, open, connection>>]_vars

\* A stats message has been processed on a connected instance.
StatsProcessed ==
    \E l \in DOMAIN listeners :
        /\ Done(l)
        /\ listeners[l].msg = Msg(TRUE, "stats", "none", 0)
        /\ listeners[l].task = "ok"
        /\ listeners[l].acts = <<>>
        /\ isConnected
        /\ connection # 0

\* C18: while an event message is processed, buildTrack is never called for
\* a WebSocketClosedEvent; for a track event it is called exactly once, right
\* after the player lookup has found the player, and not at all when the
\* lookup fails; a dispatch call for a track event is made only after the
\* track build has returned a track, so a failed build leaves no dispatch.
TrackBuiltBeforeDispatch ==
    \A l \in DOMAIN listeners :
        (listeners[l].pc = "processing" /\ listeners[l].msg.op = "event")
        => LET m == listeners[l].msg
               acts == listeners[l].acts
               builds == Calls(l, "buildTrack")
           IN /\ m.type = "WebSocketClosedEvent" => builds = <<>>
              /\ (m.type \in TrackEvents /\ listeners[l].task # "created")
                  => IF m.guild \in Players
                     THEN /\ Len(builds) = 1
                          /\ Len(acts) >= 2
                          /\ acts[1] = Act("getPlayer", m.guild, "")
                          /\ acts[2] = builds[1]
                          /\ builds[1].guild = m.guild
                     ELSE acts = <<Act("getPlayer", m.guild, "")>>
              /\ (m.type \in TrackEvents /\ Calls(l, "dispatch") # <<>>)
                  => /\ Len(acts) = 3
                     /\ acts[2] = Act("buildTrack", m.guild, "track")
                     /\ acts[3].call = "dispatch"
              /\ (m.type \in TrackEvents /\ builds # <<>>
                    /\ builds[1].name # "track")
                  => Calls(l, "dispatch") = <<>>

\* The track build of a TrackStuck event of guild 1 has failed: the player
\* was looked up, the track builder called, and nothing dispatched.
TrackBuildFailed ==
    \E l \in DOMAIN listeners :
        /\ Done(l)
        /\ listeners[l].msg = Msg(TRUE, "event", "TrackStuckEvent", 1)
        /\ listeners[l].task = "failed"
        /\ listeners[l].err = "TrackBuildError"
        /\ listeners[l].acts =
               <<Act("getPlayer", 1, ""), Act("buildTrack", 1, "raised")>>

\* C19: a listener handles its frames one at a time.  It leaves the
\* processing of a frame only when the task of that frame has ended, its
\* dispatch call, if it has one, made; and it is delivered a frame only while
\* no task of an earlier frame of its own is left.
OneFrameAtATime ==
    [][\A l \in DOMAIN listeners :
           /\ (listeners[l].pc = "processing"
                 /\ listeners'[l].pc # "processing")
               => /\ listeners[l].task \in {"ok", "failed"}
                  /\ (listeners[l].task = "ok" /\ listeners[l].msg.op = "event")
                      => Calls(l, "dispatch") # <<>>
                  /\ listeners'[l].pc = "receiving"
                      <=> listeners[l].task = "ok"
           /\ (frames' # frames /\ listeners'[l] # listeners[l])
               => /\ listeners[l].pc = "receiving"
                  /\ listeners[l].task = "none"
                  /\ listeners[l].acts = <<>>]_vars

\* A listener that has handled a frame and is still running is processing
\* the next one, which is the second frame delivered: its event has been
\* dispatched.
SecondFrameDispatched ==
    /\ frames = 2
    /\ Len(listeners) = 1
    /\ listeners[1].closures = 0
    /\ Done(1)
    /\ listeners[1].task = "ok"
    /\ Calls(1, "dispatch") # <<>>

\* C20: wherever another task can observe the instance, connected and open
\* have the same value, so isConnected equals connected, and when both are
\* True connection is not None.
FlagsAgree ==
    /\ connected = open
    /\ isConnected = connected
    /\ (connected /\ open) => connection # 0

\* The instance is connected while a connect() call and a disconnect() call
\* are both suspended and a listener is running.
ConnectedWithCallsInFlight ==
    /\ connected
    /\ open
    /\ connection # 0
    /\ pending # <<>>
    /\ closing # {}
    /\ \E l \in DOMAIN listeners : listeners[l].pc = "receiving"

====
